---- MODULE Spec2Model ----
(***************************************************************************)
(* Model of src/app.py: the Ruta Viva toll demand and revenue simulator.   *)
(*                                                                         *)
(* Numbers.  The program computes in binary64.  Here every number is a     *)
(* decimal fixed-point value held as an integer count of 1/Scale units     *)
(* (0.46 is 46, 84461.6 is 8446160).  Sums and differences are exact; a    *)
(* product or a quotient is rounded to the unit after the operation, as    *)
(* the floating-point unit rounds after every operation.  The rounding is  *)
(* toward zero, which is monotone like IEEE rounding.                      *)
(*                                                                         *)
(* Two specifications:                                                     *)
(*   Spec     the Streamlit script: the session state holds the scenario,  *)
(*            every widget change reruns the whole script, which rebuilds  *)
(*            the grid, the result table and the KPIs.                     *)
(*   SpecFun  the three library-level computations of the script applied   *)
(*            to inputs drawn from bounded sets: interp_clamp, the         *)
(*            sort/dedup of the probability table, and idxmax.             *)
(***************************************************************************)
EXTENDS Integers, Sequences, FiniteSets

VARIABLES
    tpda_liv, tpda_bus, tpda_pes,   \* st.session_state: volumes (veh/day)
    mult_cam,                       \* st.session_state: truck multiplier
    dist_km,                        \* st.session_state: average distance
    pmin, pmax, npts,               \* st.session_state: tariff range, grid size
    resultados,                     \* the result table of the last run
    idx_max, tarifa_opt,            \* KPIs of the last run
    recaud_max_dia, recaud_max_anio,
    call                            \* SpecFun: the last library-level call

vars == <<tpda_liv, tpda_bus, tpda_pes, mult_cam, dist_km, pmin, pmax, npts,
          resultados, idx_max, tarifa_opt, recaud_max_dia, recaud_max_anio,
          call>>

scenario == <<tpda_liv, tpda_bus, tpda_pes, mult_cam, dist_km, pmin, pmax, npts>>

kpis == <<idx_max, tarifa_opt, recaud_max_dia, recaud_max_anio>>

-----------------------------------------------------------------------------
(* Fixed-point arithmetic standing for binary64                            *)

\* Units per 1.0.
Scale == 10 * 10

Abs(n) == IF n < 0 THEN -n ELSE n

Sgn(n) == IF n < 0 THEN -1 ELSE 1

\* n / d rounded toward zero (d # 0).
Trunc(n, d) == Sgn(n) * Sgn(d) * (Abs(n) \div Abs(d))

\* a * b of two fixed-point values.
FMul(a, b) == Trunc(a * b, Scale)

\* a / b of two fixed-point values (b # 0).
FDiv(a, b) == Trunc(a * Scale, b)

\* The fixed-point value of the integer n.
F(n) == n * Scale

Indices(s) == 1 .. Len(s)

Last(s) == s[Len(s)]

-----------------------------------------------------------------------------
(* DEFAULTS and the embedded probability table                             *)

DEFAULTS ==
    [tpda_liv |-> 8446160, tpda_bus |-> 164880, tpda_pes |-> 265440,
     mult_cam |-> 600, dist_km |-> 1000, pmin |-> 0, pmax |-> 80, npts |-> 17]

\* tabla_probabilidades_base(): the columns pkm, pr_rv, pr_mix, pr_int.
TablaPkm   == <<0, 5, 10, 15, 20, 25, 30, 35, 40, 45, 50, 55, 60, 65, 70, 75, 80>>
TablaPrRv  == <<46, 39, 32, 25, 19, 14, 10, 7, 4, 3, 2, 1, 1, 1, 0, 0, 0>>
TablaPrMix == <<25, 32, 39, 45, 51, 56, 60, 63, 65, 66, 67, 68, 68, 69, 69, 69, 69>>
TablaPrInt == <<28, 29, 29, 30, 30, 30, 30, 31, 31, 31, 31, 31, 31, 31, 31, 31, 31>>

tabla_probabilidades_base ==
    [i \in Indices(TablaPkm) |->
        [pkm |-> TablaPkm[i], pr_rv |-> TablaPrRv[i],
         pr_mix |-> TablaPrMix[i], pr_int |-> TablaPrInt[i]]]

-----------------------------------------------------------------------------
(* np.interp with left/right fill: interp_clamp                            *)

\* Variant: the search of bisect_left, arr[j] < key <= arr[j + 1], so that a
\* key equal to a breakpoint falls in the segment that ends there.
BinarySearchLeft(key, arr) ==
    IF key < arr[1] THEN 0
    ELSE IF key > Last(arr) THEN Len(arr) + 1
    ELSE IF key = arr[1] THEN 1
    ELSE CHOOSE j \in 1 .. Len(arr) - 1 : arr[j] < key /\ key <= arr[j + 1]

\* binary_search_with_guess of np.interp on an ascending arr: 0 when
\* key < arr[1], Len(arr) + 1 when key > arr[Len(arr)], otherwise the j with
\* arr[j] <= key < arr[j + 1] (Len(arr) when key = arr[Len(arr)]).
\* (1-based; numpy's -1 and len are 0 and Len + 1 here.)
BinarySearch(key, arr) ==
    IF key < arr[1] THEN 0
    ELSE IF key > Last(arr) THEN Len(arr) + 1
    ELSE CHOOSE j \in Indices(arr) :
            /\ arr[j] <= key
            /\ (j = Len(arr) \/ key < arr[j + 1])

\* One query of np.interp(xq, xp, fp, left, right).
NpInterp(q, xp, fp, left, right) ==
    IF Len(xp) = 1
    THEN IF q < xp[1] THEN left ELSE IF q > xp[1] THEN right ELSE fp[1]
    ELSE LET j == BinarySearch(q, xp) IN
         IF j = 0 THEN left
         ELSE IF j = Len(xp) + 1 THEN right
         ELSE IF j = Len(xp) THEN fp[j]
         ELSE IF xp[j] = q THEN fp[j]
         ELSE LET slope == FDiv(fp[j + 1] - fp[j], xp[j + 1] - xp[j])
              IN  FMul(slope, q - xp[j]) + fp[j]

\* interp_clamp for one query value.
InterpClamp1(x_grid, y_grid, q) ==
    NpInterp(q, x_grid, y_grid, y_grid[1], Last(y_grid))

\* Variant: the two fill values exchanged.
interp_clampSwapped(x_grid, y_grid, xq) ==
    [i \in Indices(xq) |->
        NpInterp(xq[i], x_grid, y_grid, Last(y_grid), y_grid[1])]

\* interp_clamp(x_grid, y_grid, xq): elementwise over the query sequence.
interp_clamp(x_grid, y_grid, xq) ==
    [i \in Indices(xq) |-> InterpClamp1(x_grid, y_grid, xq[i])]

-----------------------------------------------------------------------------
(* np.linspace: the tariff grid                                            *)

\* Variant: endpoint=False, num points that stop short of stop.
LinspaceNoEndpoint(start, stop, num) ==
    LET step == FDiv(stop - start, F(num))
    IN  [k \in 1 .. num |-> (k - 1) * step + start]

\* np.linspace(start, stop, num) with endpoint=True.
Linspace(start, stop, num) ==
    LET div   == num - 1
        delta == stop - start
        step  == FDiv(delta, F(div))
        y(i)  == IF div > 0
                 THEN IF step = 0
                      THEN FMul(FDiv(F(i), F(div)), delta)
                      ELSE i * step
                 ELSE i * delta
    IN  [k \in 1 .. num |->
            IF num > 1 /\ k = num THEN stop ELSE y(k - 1) + start]

-----------------------------------------------------------------------------
(* The probability table as calcular_resultados prepares it                *)

MinPkm(df, idxs) ==
    CHOOSE m \in {df[i].pkm : i \in idxs} :
        \A i \in idxs : m <= df[i].pkm

\* The orders in which a sort by pkm may leave the rows numbered idxs.  The
\* default kind of sort_values is "quicksort", which is not stable: rows
\* with equal pkm may come out in any order.
RECURSIVE SortFrom(_, _)
SortFrom(df, idxs) ==
    IF idxs = {} THEN {<<>>}
    ELSE LET firsts == {i \in idxs : df[i].pkm = MinPkm(df, idxs)}
         IN  UNION {{<<df[i]>> \o rest : rest \in SortFrom(df, idxs \ {i})} :
                        i \in firsts}

\* df.sort_values("pkm"): the set of possible results.
sort_values(df) == SortFrom(df, Indices(df))

RECURSIVE DropFrom(_, _)
DropFrom(s, seen) ==
    IF s = <<>> THEN <<>>
    ELSE IF Head(s).pkm \in seen THEN DropFrom(Tail(s), seen)
    ELSE <<Head(s)>> \o DropFrom(Tail(s), seen \cup {Head(s).pkm})

\* .drop_duplicates(subset=["pkm"]) with the default keep="first", then
\* .reset_index(drop=True) (a sequence is always numbered from its start).
drop_duplicates(s) == DropFrom(s, {})

\* Line 87 as a whole: the tables the rest of the function may work on.
SortDedup(df) == {drop_duplicates(s) : s \in sort_values(df)}

\* Line 87 on the embedded table, which is the only table the script passes
\* (line 224); a definition of its own so that it is evaluated once.
SortDedupBase == SortDedup(tabla_probabilidades_base)

Preparadas(df_prob) ==
    IF df_prob = tabla_probabilidades_base THEN SortDedupBase
    ELSE SortDedup(df_prob)

-----------------------------------------------------------------------------
(* calcular_resultados                                                     *)

\* Variant: the truck tariff without the multiplier.
TarifaCamionesSinMult(t, m) == t

\* p_cam = tarifa_grid_liv * mult_cam.
TarifaCamiones(t, m) == FMul(t, m)

\* Variant: the base-scenario truck volume instead of the volume passed in.
CantidadDefault(tpda, pr) == FMul(DEFAULTS.tpda_bus + DEFAULTS.tpda_pes, pr)

\* Expected quantity = volume * probability.
Cantidad(tpda, pr) == FMul(tpda, pr)

\* Daily revenue of one class = Q_rv * (tarifa * dist_km).
RecaudDia(q_rv, tarifa, d) == FMul(q_rv, FMul(tarifa, d))

\* Variant: the total without the truck revenue.
RecaudTotalSoloLiv(r_liv, r_cam) == r_liv

\* recaud_total_usd_dia.
RecaudTotal(r_liv, r_cam) == r_liv + r_cam

\* Variant: a 360-day year.
Anual360(r_dia) == r_dia * 360

\* Annual figure = daily figure * 365.
DiasAnio == 365
Anual(r_dia) == r_dia * DiasAnio

\* One row of the output for the grid tariff t.
Fila(dfp, t, tl, tc, m, d) ==
    LET x      == [i \in Indices(dfp) |-> dfp[i].pkm]
        pr_rv  == [i \in Indices(dfp) |-> dfp[i].pr_rv]
        pr_mix == [i \in Indices(dfp) |-> dfp[i].pr_mix]
        pr_int == [i \in Indices(dfp) |-> dfp[i].pr_int]
        p_liv   == t
        liv_rv  == InterpClamp1(x, pr_rv, p_liv)
        liv_mix == InterpClamp1(x, pr_mix, p_liv)
        liv_int == InterpClamp1(x, pr_int, p_liv)
        p_cam   == TarifaCamiones(t, m)
        cam_rv  == InterpClamp1(x, pr_rv, p_cam)
        cam_mix == InterpClamp1(x, pr_mix, p_cam)
        cam_int == InterpClamp1(x, pr_int, p_cam)
        q_rv_liv == Cantidad(tl, liv_rv)
        q_rv_cam == Cantidad(tc, cam_rv)
        r_liv == RecaudDia(q_rv_liv, p_liv, d)
        r_cam == RecaudDia(q_rv_cam, p_cam, d)
        r_tot == RecaudTotal(r_liv, r_cam)
    IN  [tarifa_usd_km_livianos |-> p_liv,
         tarifa_usd_km_camiones |-> p_cam,
         distancia_promedio_km  |-> d,
         pr_rv_liv  |-> liv_rv,  Q_rv_liv_veh_dia  |-> q_rv_liv,
         pr_mix_liv |-> liv_mix, Q_mix_liv_veh_dia |-> Cantidad(tl, liv_mix),
         pr_int_liv |-> liv_int, Q_int_liv_veh_dia |-> Cantidad(tl, liv_int),
         pr_rv_cam  |-> cam_rv,  Q_rv_cam_veh_dia  |-> q_rv_cam,
         pr_mix_cam |-> cam_mix, Q_mix_cam_veh_dia |-> Cantidad(tc, cam_mix),
         pr_int_cam |-> cam_int, Q_int_cam_veh_dia |-> Cantidad(tc, cam_int),
         recaud_liv_usd_dia    |-> r_liv,
         recaud_cam_usd_dia    |-> r_cam,
         recaud_total_usd_dia  |-> r_tot,
         recaud_liv_usd_anio   |-> Anual(r_liv),
         recaud_cam_usd_anio   |-> Anual(r_cam),
         recaud_total_usd_anio |-> Anual(r_tot)]

\* Lines 89-139 on the prepared table dfp: one row per grid point, in grid
\* order.
Filas(dfp, tarifa_grid_liv, tl, tc, m, d) ==
    [i \in Indices(tarifa_grid_liv) |-> Fila(dfp, tarifa_grid_liv[i], tl, tc, m, d)]

\* calcular_resultados: the set of tables it may return.
calcular_resultados(df_prob, tarifa_grid_liv, tl, tc, m, d) ==
    {Filas(dfp, tarifa_grid_liv, tl, tc, m, d) : dfp \in Preparadas(df_prob)}

-----------------------------------------------------------------------------
(* Series.idxmax and the KPI block                                         *)

\* Series.idxmax() over a default RangeIndex (labels 0 .. n-1): the label of
\* the first occurrence of the maximum; ValueError on an empty series.
idxmax(serie) ==
    IF Len(serie) = 0
    THEN [exc |-> "ValueError", idx |-> -1]
    ELSE [exc |-> "none",
          idx |-> (CHOOSE i \in Indices(serie) :
                      /\ \A k \in Indices(serie) : serie[k] <= serie[i]
                      /\ \A k \in 1 .. i - 1 : serie[k] < serie[i]) - 1]

RecaudTotalDia(tabla) == [i \in Indices(tabla) |-> tabla[i].recaud_total_usd_dia]

\* resultados.loc[label]: the row with that index label.
Loc(tabla, label) == tabla[label + 1]

-----------------------------------------------------------------------------
(* Spec: the Streamlit script                                              *)

\* Slider bounds of "Número de puntos (curva)": 5 .. 250; the model moves the
\* slider within MinNpts .. MaxNpts.
MinNpts == 5
MaxNpts == 6

\* Values the widgets are set to (every number_input accepts any value from
\* its min_value up; pmin and pmax are independent of each other).
TpdaLivValues == {0, DEFAULTS.tpda_liv}
TpdaBusValues == {0, DEFAULTS.tpda_bus}
TpdaPesValues == {0, DEFAULTS.tpda_pes}
MultCamValues == {0, 150, DEFAULTS.mult_cam}
DistKmValues  == {10, DEFAULTS.dist_km}
PminValues    == {0, 20, 70, 90}
PmaxValues    == {0, 30, 80}
NptsValues    == MinNpts .. MaxNpts

\* KPI variables before the KPI block has assigned them.
Unset == -1

Actual ==
    [tpda_liv |-> tpda_liv, tpda_bus |-> tpda_bus, tpda_pes |-> tpda_pes,
     mult_cam |-> mult_cam, dist_km |-> dist_km,
     pmin |-> pmin, pmax |-> pmax, npts |-> npts]

\* The grid of line 231.
tarifa_grid(s) == Linspace(s.pmin, s.pmax, s.npts)

\* Variant: the exception is swallowed and zeros are reported.
KpisDefault(res) ==
    LET r == idxmax(RecaudTotalDia(res)) IN
    IF r.exc = "none"
    THEN [exc |-> r.exc, idx_max |-> r.idx,
          tarifa_opt |-> Loc(res, r.idx).tarifa_usd_km_livianos,
          recaud_max_dia |-> Loc(res, r.idx).recaud_total_usd_dia,
          recaud_max_anio |-> Loc(res, r.idx).recaud_total_usd_anio]
    ELSE [exc |-> "none", idx_max |-> 0, tarifa_opt |-> 0,
          recaud_max_dia |-> 0, recaud_max_anio |-> 0]

\* The KPI block, lines 279-282, on the table res.  An exception of idxmax
\* propagates: the script stops there and no KPI is assigned.
Kpis(res) ==
    LET r == idxmax(RecaudTotalDia(res)) IN
    IF r.exc = "none"
    THEN [exc |-> r.exc, idx_max |-> r.idx,
          tarifa_opt |-> Loc(res, r.idx).tarifa_usd_km_livianos,
          recaud_max_dia |-> Loc(res, r.idx).recaud_total_usd_dia,
          recaud_max_anio |-> Loc(res, r.idx).recaud_total_usd_anio]
    ELSE [exc |-> r.exc, idx_max |-> Unset, tarifa_opt |-> Unset,
          recaud_max_dia |-> Unset, recaud_max_anio |-> Unset]

\* One run of the script, top to bottom, with the session state s.
Rerun(s) ==
    /\ tpda_liv' = s.tpda_liv
    /\ tpda_bus' = s.tpda_bus
    /\ tpda_pes' = s.tpda_pes
    /\ mult_cam' = s.mult_cam
    /\ dist_km' = s.dist_km
    /\ pmin' = s.pmin
    /\ pmax' = s.pmax
    /\ npts' = s.npts
    /\ \E res \in calcular_resultados(tabla_probabilidades_base, tarifa_grid(s),
                                      s.tpda_liv, s.tpda_bus + s.tpda_pes,
                                      s.mult_cam, s.dist_km) :
          LET k == Kpis(res) IN
          /\ resultados' = res
          /\ idx_max' = k.idx_max
          /\ tarifa_opt' = k.tarifa_opt
          /\ recaud_max_dia' = k.recaud_max_dia
          /\ recaud_max_anio' = k.recaud_max_anio
    /\ UNCHANGED call

NoCall == [fn |-> "none"]

\* The first run of a new session: session_state is filled from DEFAULTS.
Init ==
    /\ tpda_liv = DEFAULTS.tpda_liv
    /\ tpda_bus = DEFAULTS.tpda_bus
    /\ tpda_pes = DEFAULTS.tpda_pes
    /\ mult_cam = DEFAULTS.mult_cam
    /\ dist_km = DEFAULTS.dist_km
    /\ pmin = DEFAULTS.pmin
    /\ pmax = DEFAULTS.pmax
    /\ npts = DEFAULTS.npts
    /\ \E res \in calcular_resultados(tabla_probabilidades_base,
                                      tarifa_grid(DEFAULTS),
                                      DEFAULTS.tpda_liv,
                                      DEFAULTS.tpda_bus + DEFAULTS.tpda_pes,
                                      DEFAULTS.mult_cam, DEFAULTS.dist_km) :
          LET k == Kpis(res) IN
          /\ resultados = res
          /\ idx_max = k.idx_max
          /\ tarifa_opt = k.tarifa_opt
          /\ recaud_max_dia = k.recaud_max_dia
          /\ recaud_max_anio = k.recaud_max_anio
    /\ call = NoCall

\* The button "Resetear escenario base".
Reset == Rerun(DEFAULTS)

SetTpdaLiv == \E v \in TpdaLivValues : Rerun([Actual EXCEPT !.tpda_liv = v])

SetTpdaBus == \E v \in TpdaBusValues : Rerun([Actual EXCEPT !.tpda_bus = v])

SetTpdaPes == \E v \in TpdaPesValues : Rerun([Actual EXCEPT !.tpda_pes = v])

SetMultCam == \E v \in MultCamValues : Rerun([Actual EXCEPT !.mult_cam = v])

SetDistKm == \E v \in DistKmValues : Rerun([Actual EXCEPT !.dist_km = v])

SetPmin == \E v \in PminValues : Rerun([Actual EXCEPT !.pmin = v])

SetPmax == \E v \in PmaxValues : Rerun([Actual EXCEPT !.pmax = v])

SetNpts == \E v \in NptsValues : Rerun([Actual EXCEPT !.npts = v])

Next ==
    \/ Reset
    \/ SetTpdaLiv
    \/ SetTpdaBus
    \/ SetTpdaPes
    \/ SetMultCam
    \/ SetDistKm
    \/ SetPmin
    \/ SetPmax
    \/ SetNpts

Spec == Init /\ [][Next]_vars

-----------------------------------------------------------------------------
(* SpecFun: the library-level computations on drawn inputs                 *)

MaxLen     == 3      \* longest domain handed to interp_clamp
MaxQueries == 1      \* longest query sequence
MaxRows    == 3      \* longest probability table handed to line 87
MaxSerie   == 3      \* longest result table handed to the KPI block

PkmValues == {0, 3, 10}
PrValues  == {0, 20, 46}
Consultas == {-5, 0, 2, 3, 7, 10, 15}
RecaudValues == {0, 100, 200}

SeqsUpTo(S, n) == UNION {[1 .. k -> S] : k \in 0 .. n}

Ascending(s) == \A i \in 1 .. Len(s) - 1 : s[i] <= s[i + 1]

StrictlyAscending(s) == \A i \in 1 .. Len(s) - 1 : s[i] < s[i + 1]

Dominios == {x \in SeqsUpTo(PkmValues, MaxLen) : Len(x) >= 1 /\ Ascending(x)}

FilasProb ==
    {[pkm |-> k, pr_rv |-> p, pr_mix |-> 25, pr_int |-> 28] :
        k \in PkmValues, p \in {20, 46}}

Tablas == {t \in SeqsUpTo(FilasProb, MaxRows) : Len(t) >= 1}

FilasKpi ==
    {[tarifa_usd_km_livianos |-> t, recaud_total_usd_dia |-> r,
      recaud_total_usd_anio |-> Anual(r)] : t \in {0, 40}, r \in RecaudValues}

\* The calls are independent of each other: each is made from the idle state
\* and Return goes back to it.
CallInterpClamp ==
    /\ call = NoCall
    /\ \E x_grid \in Dominios :
       \E y_grid \in [Indices(x_grid) -> PrValues] :
       \E xq \in SeqsUpTo(Consultas, MaxQueries) :
          /\ Len(xq) >= 1
          /\ call' = [fn |-> "interp_clamp", x_grid |-> x_grid,
                      y_grid |-> y_grid, xq |-> xq,
                      out |-> interp_clamp(x_grid, y_grid, xq)]
    /\ UNCHANGED <<scenario, resultados, kpis>>

CallSortDedup ==
    /\ call = NoCall
    /\ \E df_prob \in Tablas :
       \E out \in SortDedup(df_prob) :
          call' = [fn |-> "sort_dedup", df_prob |-> df_prob, out |-> out]
    /\ UNCHANGED <<scenario, resultados, kpis>>

CallKpis ==
    /\ call = NoCall
    /\ \E res \in SeqsUpTo(FilasKpi, MaxSerie) :
          call' = [fn |-> "kpis", res |-> res, out |-> Kpis(res)]
    /\ UNCHANGED <<scenario, resultados, kpis>>

Return ==
    /\ call # NoCall
    /\ call' = NoCall
    /\ UNCHANGED <<scenario, resultados, kpis>>

NextFun ==
    \/ CallInterpClamp
    \/ CallSortDedup
    \/ CallKpis
    \/ Return

SpecFun == Init /\ [][NextFun]_vars

-----------------------------------------------------------------------------
(* Properties                                                              *)

RowsOf(tabla) == {tabla[i] : i \in Indices(tabla)}

\* C1 (SpecFun).  Interpolation clamp: a query below the first breakpoint gets
\* exactly the first value, a query above the last breakpoint exactly the last
\* value, for every ascending domain; the result has one entry per query.
C1_Clamp ==
    call.fn = "interp_clamp" =>
        /\ Len(call.out) = Len(call.xq)
        /\ \A i \in Indices(call.xq) :
              /\ call.xq[i] < call.x_grid[1] => call.out[i] = call.y_grid[1]
              /\ call.xq[i] > Last(call.x_grid) =>
                    call.out[i] = Last(call.y_grid)

\* A query below a domain whose first segment has a slope, answered with
\* the first value.
C1_Witness ==
    /\ call.fn = "interp_clamp"
    /\ Len(call.x_grid) >= 2
    /\ call.y_grid[1] # call.y_grid[2]
    /\ call.y_grid[1] # Last(call.y_grid)
    /\ call.xq[1] < call.x_grid[1]
    /\ call.out[1] = call.y_grid[1]

\* C2 (SpecFun).  Exactness at knots: on a domain with unique breakpoints a
\* query equal to breakpoint k gets exactly value k; a domain of length 1
\* answers every query with its single value.
C2_Knots ==
    (call.fn = "interp_clamp" /\ StrictlyAscending(call.x_grid)) =>
        /\ \A i \in Indices(call.xq) : \A k \in Indices(call.x_grid) :
              call.xq[i] = call.x_grid[k] => call.out[i] = call.y_grid[k]
        /\ Len(call.x_grid) = 1 =>
              \A i \in Indices(call.xq) : call.out[i] = call.y_grid[1]

\* A query on the interior breakpoint of a three-point domain whose values
\* all differ.
C2_Witness ==
    /\ call.fn = "interp_clamp"
    /\ Len(call.x_grid) = 3
    /\ StrictlyAscending(call.x_grid)
    /\ call.xq[1] = call.x_grid[2]
    /\ call.y_grid[1] # call.y_grid[2]
    /\ call.y_grid[2] # call.y_grid[3]
    /\ call.out[1] = call.y_grid[2]

\* C3 (Spec).  Monotonic grid: the table has npts rows, row i carries the
\* i-th grid tariff, and when pmin <= pmax the tariffs run from pmin to pmax
\* in ascending order.
C3_Grid ==
    /\ Len(resultados) = npts
    /\ \A i \in Indices(resultados) :
          resultados[i].tarifa_usd_km_livianos = tarifa_grid(Actual)[i]
    /\ pmin <= pmax =>
          /\ resultados[1].tarifa_usd_km_livianos = pmin
          /\ Last(resultados).tarifa_usd_km_livianos = pmax
          /\ \A i \in 1 .. Len(resultados) - 1 :
                resultados[i].tarifa_usd_km_livianos
                    <= resultados[i + 1].tarifa_usd_km_livianos

\* A grid of more than the minimum number of points over a proper range,
\* with strictly increasing tariffs.
C3_Witness ==
    /\ pmin < pmax
    /\ npts > MinNpts
    /\ Len(resultados) = npts
    /\ \A i \in 1 .. Len(resultados) - 1 :
          resultados[i].tarifa_usd_km_livianos
              < resultados[i + 1].tarifa_usd_km_livianos

Maximizers(tabla) ==
    {i \in Indices(tabla) :
        \A k \in Indices(tabla) :
            tabla[k].recaud_total_usd_dia <= tabla[i].recaud_total_usd_dia}

\* C4 (Spec).  Argmax stability: when several rows share the maximal total
\* daily revenue, the reported tariff is the lowest tariff among those rows
\* and the reported daily and annual revenue are those of the reported row.
C4_LowestMaximizer ==
    Cardinality(Maximizers(resultados)) >= 2 =>
        /\ idx_max + 1 \in Maximizers(resultados)
        /\ tarifa_opt = Loc(resultados, idx_max).tarifa_usd_km_livianos
        /\ recaud_max_dia = Loc(resultados, idx_max).recaud_total_usd_dia
        /\ recaud_max_anio = Loc(resultados, idx_max).recaud_total_usd_anio
        /\ \A i \in Maximizers(resultados) :
              tarifa_opt <= resultados[i].tarifa_usd_km_livianos

FirstWith(df, k) ==
    df[CHOOSE i \in Indices(df) :
          /\ df[i].pkm = k
          /\ \A j \in 1 .. i - 1 : df[j].pkm # k]

\* C5 (SpecFun).  Duplicate breakpoints: the prepared table is sorted
\* ascending with unique breakpoints, covers every tariff of the input, and
\* keeps for each tariff the row that comes first in the input.
C5_FirstSeenKept ==
    call.fn = "sort_dedup" =>
        /\ StrictlyAscending([i \in Indices(call.out) |-> call.out[i].pkm])
        /\ {call.out[i].pkm : i \in Indices(call.out)}
             = {call.df_prob[i].pkm : i \in Indices(call.df_prob)}
        /\ \A i \in Indices(call.out) :
              call.out[i] = FirstWith(call.df_prob, call.out[i].pkm)

ZeroQuantities(r) ==
    /\ r.Q_rv_liv_veh_dia = 0 /\ r.Q_mix_liv_veh_dia = 0
    /\ r.Q_int_liv_veh_dia = 0
    /\ r.Q_rv_cam_veh_dia = 0 /\ r.Q_mix_cam_veh_dia = 0
    /\ r.Q_int_cam_veh_dia = 0

ZeroRevenues(r) ==
    /\ r.recaud_liv_usd_dia = 0 /\ r.recaud_cam_usd_dia = 0
    /\ r.recaud_total_usd_dia = 0
    /\ r.recaud_liv_usd_anio = 0 /\ r.recaud_cam_usd_anio = 0
    /\ r.recaud_total_usd_anio = 0

\* C6 (Spec).  Zero volume: with no light vehicles and no trucks
\* (buses + heavy), all six quantities and all six revenues of every row
\* are zero.
C6_ZeroVolume ==
    (tpda_liv = 0 /\ tpda_bus + tpda_pes = 0) =>
        \A r \in RowsOf(resultados) : ZeroQuantities(r) /\ ZeroRevenues(r)

\* Zero volumes with a row whose tariffs and tolled-route probabilities are
\* all positive.
C6_Witness ==
    /\ tpda_liv = 0
    /\ tpda_bus + tpda_pes = 0
    /\ \E r \in RowsOf(resultados) :
          /\ r.tarifa_usd_km_livianos > 0 /\ r.pr_rv_liv > 0
          /\ r.tarifa_usd_km_camiones > 0 /\ r.pr_rv_cam > 0
          /\ ZeroQuantities(r) /\ ZeroRevenues(r)

\* C7 (Spec).  Revenue additivity: in every row the total daily revenue is
\* the light plus the truck daily revenue, each being the tolled-route
\* quantity of the class times (the tariff of the class times the distance).
C7_Additivity ==
    \A r \in RowsOf(resultados) :
        /\ r.distancia_promedio_km = dist_km
        /\ r.recaud_liv_usd_dia =
              FMul(r.Q_rv_liv_veh_dia, FMul(r.tarifa_usd_km_livianos, dist_km))
        /\ r.recaud_cam_usd_dia =
              FMul(r.Q_rv_cam_veh_dia, FMul(r.tarifa_usd_km_camiones, dist_km))
        /\ r.recaud_total_usd_dia = r.recaud_liv_usd_dia + r.recaud_cam_usd_dia

\* A row where both classes pay and the other routes carry traffic too.
C7_Witness ==
    \E r \in RowsOf(resultados) :
        /\ r.recaud_liv_usd_dia > 0
        /\ r.recaud_cam_usd_dia > 0
        /\ r.Q_mix_liv_veh_dia > 0
        /\ r.Q_int_cam_veh_dia > 0
        /\ r.recaud_total_usd_dia = r.recaud_liv_usd_dia + r.recaud_cam_usd_dia

\* C8 (Spec).  Annualization: in every row each yearly revenue is the daily
\* revenue of the same column times 365.
C8_Annual ==
    \A r \in RowsOf(resultados) :
        /\ r.recaud_liv_usd_anio = r.recaud_liv_usd_dia * DiasAnio
        /\ r.recaud_cam_usd_anio = r.recaud_cam_usd_dia * DiasAnio
        /\ r.recaud_total_usd_anio = r.recaud_total_usd_dia * DiasAnio

\* A row with positive daily revenue of both classes, annualized.
C8_Witness ==
    \E r \in RowsOf(resultados) :
        /\ r.recaud_liv_usd_dia > 0
        /\ r.recaud_cam_usd_dia > 0
        /\ r.recaud_total_usd_anio = r.recaud_total_usd_dia * DiasAnio

\* C9 (SpecFun).  Argmax on empty input: the KPI block on an empty table ends
\* with the exception of idxmax and assigns no KPI; on a table with rows it
\* raises nothing.
C9_EmptyArgmax ==
    call.fn = "kpis" =>
        IF Len(call.res) = 0
        THEN /\ call.out.exc = "ValueError"
             /\ call.out.idx_max = Unset
             /\ call.out.tarifa_opt = Unset
             /\ call.out.recaud_max_dia = Unset
             /\ call.out.recaud_max_anio = Unset
        ELSE call.out.exc = "none"

\* The KPI block called on the empty table.
C9_Witness ==
    /\ call.fn = "kpis"
    /\ call.res = <<>>
    /\ call.out.exc = "ValueError"

\* C10 (Spec).  Truck tariff schedule: the truck tariff of a row is the grid
\* tariff times the multiplier; the truck probabilities are the table's
\* curves at the truck tariff and the light probabilities the same curves
\* at the grid tariff; a truck tariff at or above the last breakpoint gets
\* the last table values.
C10_TruckSchedule ==
    \A r \in RowsOf(resultados) :
        LET t  == r.tarifa_usd_km_livianos
            tc == r.tarifa_usd_km_camiones
        IN  /\ tc = FMul(t, mult_cam)
            /\ r.pr_rv_cam  = InterpClamp1(TablaPkm, TablaPrRv, tc)
            /\ r.pr_mix_cam = InterpClamp1(TablaPkm, TablaPrMix, tc)
            /\ r.pr_int_cam = InterpClamp1(TablaPkm, TablaPrInt, tc)
            /\ r.pr_rv_liv  = InterpClamp1(TablaPkm, TablaPrRv, t)
            /\ r.pr_mix_liv = InterpClamp1(TablaPkm, TablaPrMix, t)
            /\ r.pr_int_liv = InterpClamp1(TablaPkm, TablaPrInt, t)
            /\ tc >= Last(TablaPkm) =>
                  /\ r.pr_rv_cam  = Last(TablaPrRv)
                  /\ r.pr_mix_cam = Last(TablaPrMix)
                  /\ r.pr_int_cam = Last(TablaPrInt)

\* A table with one row whose truck tariff falls strictly inside a segment
\* of the curve and another whose truck tariff is past the last breakpoint
\* while its light tariff is not.
C10_Witness ==
    /\ mult_cam > F(1)
    /\ \E r \in RowsOf(resultados) :
          /\ r.tarifa_usd_km_camiones > r.tarifa_usd_km_livianos
          /\ r.tarifa_usd_km_camiones < Last(TablaPkm)
          /\ r.tarifa_usd_km_camiones \notin {TablaPkm[i] : i \in Indices(TablaPkm)}
          /\ r.pr_rv_cam < r.pr_rv_liv
    /\ \E r \in RowsOf(resultados) :
          /\ r.tarifa_usd_km_livianos < Last(TablaPkm)
          /\ r.tarifa_usd_km_camiones >= Last(TablaPkm)
          /\ r.pr_mix_cam = Last(TablaPrMix)
          /\ r.pr_mix_liv < r.pr_mix_cam

====
